---- MODULE Spec2Model ----
(***************************************************************************)
(* The interaction router of src/src/index.ts (lines 76-419) on top of the *)
(* Koa application of lines 18-74.                                         *)
(*                                                                         *)
(* A request is handled in steps, one per `await` of its handler; the code *)
(* between two awaits runs without interruption (Node's event loop), so it *)
(* is one action.  The browser sends its requests one after the other: a   *)
(* request is answered before the next is sent.  The engine                *)
(* (oidc-provider), the account store and the federated client             *)
(* (ctx.google) are collaborators; the user agent is a browser whose       *)
(* cookie jar is changed only by the Set-Cookie headers of the responses   *)
(* it receives.  `keys` is the module-level set of the debug serializer    *)
(* (line 94), the one piece of state the handlers themselves keep.         *)
(*                                                                         *)
(* Encoding of JavaScript values:                                          *)
(*   undefined / absent            <<>>                                    *)
(*   a string that is built        the sequence of its parts: the state    *)
(*                                 `uid|hex` is <<uid, "|", h1, ..., h64>>, *)
(*                                 the nonce `hex` is <<h1, ..., h64>>      *)
(*   params.prompt "a b"           <<"a", "b">> (split / join on " ")      *)
(*   an object literal             the set of its <<path, value>> leaves   *)
(***************************************************************************)
EXTENDS Integers, Sequences, FiniteSets, TLC

VARIABLES engine, jar, req, nreq, keys

vars == <<engine, jar, req, nreq, keys>>

(* ---------------------------------------------------------------- bounds *)

\* Requests sent in one behaviour.
MaxRequests == 3

\* Interaction uids, random draws, accounts, login names.
Uids == {"a", "b"}
Rand == {1, 2}
Accounts == {"u1", "u2"}
Logins == {"alice"}

Undefined == <<>>

(* ---------------------------------------------------------- random tokens *)

\* crypto.randomBytes(size): `size` bytes; x tells one draw from another.
randomBytes(size, x) == [i \in 1..size |-> (x * 16 + i * x) % 256]

HexDigits == <<"0", "1", "2", "3", "4", "5", "6", "7",
               "8", "9", "a", "b", "c", "d", "e", "f">>

\* buf.toString("hex"): two hexadecimal digits for each byte.
RECURSIVE toHex(_)
toHex(buf) ==
    IF buf = <<>> THEN <<>>
    ELSE <<HexDigits[(Head(buf) \div 16) + 1], HexDigits[(Head(buf) % 16) + 1]>>
            \o toHex(Tail(buf))

\* `${uid}|${crypto.randomBytes(32).toString("hex")}`
stateOfDraw(uid, x) == <<uid, "|">> \o toHex(randomBytes(32, x))

\* crypto.randomBytes(32).toString("hex")
nonceOfDraw(y) == toHex(randomBytes(32, y))

(* ------------------------------------------------------------ the engine *)

\* The engine is a collaborator: what interactionDetails returns for a
\* pending interaction is its answer of the moment, a prompt name and whether
\* a session exists.  The one part of an interaction the router writes,
\* params.prompt, is kept in `engine`.
EngineAnswers ==
    {[prompt |-> "login", session |-> FALSE],
     [prompt |-> "select_account", session |-> FALSE],
     [prompt |-> "select_account", session |-> TRUE],
     [prompt |-> "consent", session |-> TRUE],
     [prompt |-> "other", session |-> FALSE]}

\* The engine's SessionNotFound (an InvalidRequest: status 400, message
\* invalid_request), raised by interactionDetails and interactionFinished
\* when no interaction is found for the request.
SessionNotFoundErr(desc) ==
    [kind |-> "SessionNotFound", status |-> 400,
     message |-> "invalid_request", description |-> desc]

AssertionErr == [kind |-> "AssertionError", status |-> 0,
                 message |-> "assert.equal", description |-> ""]

RPErr == [kind |-> "RPError", status |-> 0,
          message |-> "callback rejected", description |-> ""]

(* ----------------------------------------------------- resolution results *)

\* {}
EmptyResult == {}

\* { select_account: {} }
SelectAccountResult == {<<"select_account", "{}">>}

\* { select_account: {}, login: { account: accountId } }
LoginResult(accountId) ==
    {<<"select_account", "{}">>, <<"login.account", accountId>>}

\* { consent: { rejectedScopes: [], rejectedClaims: [], replace: false } }
ConsentResult ==
    {<<"consent.rejectedScopes", "[]">>, <<"consent.rejectedClaims", "[]">>,
     <<"consent.replace", "false">>}

\* { error: "access_denied", error_description: "End-User aborted interaction" }
AbortResult ==
    {<<"error", "access_denied">>,
     <<"error_description", "End-User aborted interaction">>}

\* The lookup's "no account" (null or undefined).
NoAccount == "null"

\* Mutant of ResultOfLookup: select_account left out of the login result.
ResultOfLookup_NoSelectAccount(account) ==
    IF account # NoAccount THEN {<<"login.account", account>>} ELSE {}

\* account != null ? { select_account: {}, login: { account } } : {}
ResultOfLookup(account) ==
    IF account # NoAccount THEN LoginResult(account) ELSE EmptyResult

(* ------------------------------------------------------------- a request *)

NoCallbackParams == [present |-> FALSE, state |-> Undefined, nonce |-> Undefined]

\* The callback parameters a client can post: none, or an id_token response
\* with or without a state.  An id_token issued for an implicit-flow request
\* carries the nonce of that request (OpenID Connect Core 3.2.2.1 makes the
\* nonce mandatory there), so the token's nonce is never absent.
States == {stateOfDraw(u, x) : u \in Uids, x \in Rand}
Nonces == {nonceOfDraw(y) : y \in Rand}
CallbackParams ==
    {[present |-> TRUE, state |-> st, nonce |-> n] :
        st \in States \cup {Undefined}, n \in Nonces}

NoCall == [result |-> EmptyResult, merge |-> FALSE]

IdleReq ==
    [pc |-> "idle", route |-> "", uid |-> "",
     login |-> "", provider |-> "", cb |-> NoCallbackParams, switch |-> FALSE,
     ckState |-> Undefined, ckNonce |-> Undefined, ckRead |-> FALSE,
     name |-> "", session |-> FALSE, prompt |-> Undefined, account |-> NoAccount,
     checks |-> [state |-> Undefined, nonce |-> Undefined],
     arg |-> NoCall, calls |-> <<>>, saved |-> FALSE,
     nocache |-> FALSE, cookieSets |-> <<>>,
     status |-> 0, body |-> "", bodyData |-> <<>>,
     outcome |-> "", err |-> "", trace |-> <<>>, draws |-> <<>>,
     dbg |-> [session |-> <<>>, params |-> <<>>, prompt |-> <<>>]]

\* The cookie scoping path `/interaction/${uid}/federated` of a uid.
FederatedPath(uid) == <<"interaction", uid, "federated">>

\* The cookies stored for one path.  `read` is history: whether a completion
\* has read the stored pair.
NoCookies == [state |-> Undefined, nonce |-> Undefined, read |-> FALSE]

Paths == {FederatedPath(u) : u \in Uids}

(* ------------------------------------------------------ the debug panels *)

\* The objects given to debug, as sequences of <<key, value>> entries.  A key
\* is a one-element sequence, a string value the sequence of its parts, so
\* that a key and an inspected value can be compared.  `session` of a request
\* with a session, `params` (client_id, and prompt when the request had one),
\* `prompt` (name, reasons, and details, here empty).
SessionObj(r) == << <<(<<"accountId">>), <<"account">> >> >>

ParamsObj(r) ==
    << <<(<<"client_id">>), <<"client">> >> >>
        \o (IF r.prompt # Undefined THEN << <<(<<"prompt">>), r.prompt>> >> ELSE <<>>)

PromptObj(r) ==
    << <<(<<"name">>), <<r.name>> >>,
       <<(<<"reasons">>), <<"[", r.name, "]">> >>,
       <<(<<"details">>), <<>> >> >>

\* lodash isEmpty of a value
isEmpty(value) == value = <<>>

\* util.inspect of a string value: the string between quotes.
inspect(value) == <<"'">> \o value \o <<"'">>

\* The encodeURIComponent option of querystring.stringify, applied to every
\* key and every value: keys.has(value) ? `<strong>${value}</strong>` : value
encodeURIComponent(value, ks) ==
    IF value \in ks THEN <<"<strong>">> \o value \o <<"</strong>">> ELSE value

\* The keys that the reduce of debug(obj) adds to `keys`: every key of obj.
KeysOf(obj) == {obj[i][1] : i \in 1..Len(obj)}

\* querystring.stringify of the entries whose value is not empty.
RECURSIVE stringify(_, _)
stringify(obj, ks) ==
    IF obj = <<>> THEN <<>>
    ELSE (IF isEmpty(Head(obj)[2]) THEN <<>>
          ELSE << <<encodeURIComponent(Head(obj)[1], ks),
                    encodeURIComponent(inspect(Head(obj)[2]), ks)>> >>)
         \o stringify(Tail(obj), ks)

\* debug(obj) when the module's `keys` set holds ks: the keys of obj are
\* added first (the reduce), then the entries are written out.
debug(obj, ks) == stringify(obj, ks \cup KeysOf(obj))

\* The locals session, dbg.params and dbg.prompt of a render, evaluated in
\* this order, `keys` holding ks before.
debugPanels(r, ks) ==
    LET k1 == IF r.session THEN ks \cup KeysOf(SessionObj(r)) ELSE ks
        k2 == k1 \cup KeysOf(ParamsObj(r))
    IN [session |-> IF r.session THEN debug(SessionObj(r), ks) ELSE <<>>,
        params |-> debug(ParamsObj(r), k1),
        prompt |-> debug(PromptObj(r), k2)]

\* `keys` after the three calls of debug.
keysAfterRender(r, ks) ==
    ks \cup (IF r.session THEN KeysOf(SessionObj(r)) ELSE {})
       \cup KeysOf(ParamsObj(r)) \cup KeysOf(PromptObj(r))

\* A handler step that may have ended in a render of one of the three views
\* with debug panels: the panels are part of the response.
withDebug(r, ks) ==
    IF r.outcome = "render" THEN [r EXCEPT !.dbg = debugPanels(r, ks)] ELSE r

(* ------------------------------------------------------------ middleware *)

\* renderError: the response body becomes the static page listing the
\* entries of `out` (here {error, error_description}).
renderError(r, out) ==
    [r EXCEPT !.body = "errorpage", !.bodyData = out]

\* Mutant of routerCatch: every error is rendered, none is thrown on.
routerCatch_CatchesAll(r, e) ==
    [renderError([r EXCEPT !.status = e.status], <<e.message, e.description>>)
        EXCEPT !.pc = "responded", !.outcome = "errorpage", !.err = e.kind]

\* The catch of router.use: a SessionNotFound becomes a response with the
\* error's status and the error page; any other error is thrown on.
routerCatch(r, e) ==
    IF e.kind = "SessionNotFound"
    THEN [renderError([r EXCEPT !.status = e.status],
                      <<e.message, e.description>>)
            EXCEPT !.pc = "responded", !.outcome = "errorpage", !.err = e.kind]
    ELSE [r EXCEPT !.pc = "responded", !.outcome = "thrown", !.err = e.kind]

\* router.use before next(): the two no-cache headers.
routerUse(r) == [r EXCEPT !.nocache = TRUE]

\* A call of an external collaborator, noted in the request's call trace.
Call(r, what) == [r EXCEPT !.trace = Append(@, what)]

\* Mutant of interactionFinished: the call is made a second time (a retry).
interactionFinished_Twice(r, result, merge) ==
    [Call(Call(r, "interactionFinished"), "interactionFinished")
        EXCEPT !.pc = "finish", !.arg = [result |-> result, merge |-> merge]]

\* provider.interactionFinished(ctx.req, ctx.res, result, {mergeWithLastSubmission}):
\* the call is made here, the engine acts on it in Finish.
interactionFinished(r, result, merge) ==
    [Call(r, "interactionFinished")
        EXCEPT !.pc = "finish", !.arg = [result |-> result, merge |-> merge]]

\* ctx.render(view, locals)
Render(r, view) ==
    [Call(r, "render") EXCEPT !.pc = "responded", !.outcome = "render", !.body = view]

\* What the application sends for a request whose handler has ended.  An error
\* that leaves the router reaches Koa's default error handling, the application
\* of lines 18-64 installing none of its own: it drops every header set so far
\* (the no-cache pair and Set-Cookie among them) and answers 500.
FinalResponse(r) ==
    IF r.outcome = "thrown"
    THEN [status |-> 500, nocache |-> FALSE, setCookie |-> <<>>, body |-> "error"]
    ELSE [status |-> r.status, nocache |-> r.nocache,
          setCookie |-> r.cookieSets, body |-> r.body]

(* ------------------------------------------------------------ the browser *)

\* ctx.cookies.set(name, value, {path, sameSite}): one more Set-Cookie header.
\* An empty value expires the cookie.
cookiesSet(r, name, value, sameSite) ==
    [r EXCEPT !.cookieSets =
        Append(@, [name |-> name, value |-> value, path |-> FederatedPath(r.uid),
                   sameSite |-> sameSite])]

\* The empty string "" , the value that clears a cookie.
Empty == <<>>

\* The browser on one Set-Cookie header: an expired cookie is dropped.
StoreCookie(j, d) ==
    IF d.name = "google.state"
    THEN [j EXCEPT ![d.path].state = IF d.value = Empty THEN Undefined ELSE d.value,
                   ![d.path].read = FALSE]
    ELSE [j EXCEPT ![d.path].nonce = IF d.value = Empty THEN Undefined ELSE d.value]

RECURSIVE StoreCookies(_, _)
StoreCookies(j, ds) ==
    IF ds = <<>> THEN j ELSE StoreCookies(StoreCookie(j, Head(ds)), Tail(ds))

\* The cookies the browser sends with a request for `path`.
CookiesFor(path) == jar[path]

(* ------------------------------------------------------------------ Init *)

Init ==
    /\ engine \in [Uids -> {Undefined, <<"consent">>}]
    /\ jar = [p \in Paths |-> NoCookies]
    /\ req = IdleReq
    /\ nreq = 0
    /\ keys = {}

(* ------------------------------------------------- a request is received *)

\* A new request: the middleware runs, then the handler up to its first await.
NewReq(route, uid) ==
    routerUse([IdleReq EXCEPT !.route = route, !.uid = uid])

Receive(r) ==
    /\ req.pc = "idle"
    /\ nreq < MaxRequests
    /\ nreq' = nreq + 1
    /\ req' = r
    /\ UNCHANGED <<engine, jar, keys>>

AwaitDetails(r) == [Call(r, "interactionDetails") EXCEPT !.pc = "details"]

\* GET /interaction/:uid
GetInteraction ==
    \E u \in Uids : Receive(AwaitDetails(NewReq("inspect", u)))

\* GET /interaction/callback/google
GetCallbackGoogle ==
    Receive(Render(NewReq("callback", ""), "repost"))

\* POST /interaction/:uid/login
PostLogin ==
    \E u \in Uids, l \in Logins :
        Receive(AwaitDetails([NewReq("login", u) EXCEPT !.login = l]))

\* POST /interaction/:uid/federated; the browser sends the cookies stored for
\* the route's path.
PostFederated ==
    \E u \in Uids, prov \in {"google", "other"},
       cb \in CallbackParams \cup {NoCallbackParams} :
        /\ LET ck == CookiesFor(FederatedPath(u)) IN
           Receive(AwaitDetails([NewReq("federated", u) EXCEPT
                !.provider = prov, !.cb = cb,
                !.ckState = ck.state, !.ckNonce = ck.nonce, !.ckRead = ck.read]))

\* POST /interaction/:uid/continue
PostContinue ==
    \E u \in Uids, sw \in BOOLEAN :
        Receive(AwaitDetails([NewReq("continue", u) EXCEPT !.switch = sw]))

\* POST /interaction/:uid/confirm
PostConfirm ==
    \E u \in Uids : Receive(AwaitDetails(NewReq("confirm", u)))

\* Mutant of abortHandler: the interaction is read before it is resolved.
abortHandler_ReadsFirst(r) == AwaitDetails(r)

\* The abort handler: the fixed result, then the resolve.
abortHandler(r) == interactionFinished(r, AbortResult, FALSE)

\* GET /interaction/:uid/abort
GetAbort ==
    \E u \in Uids : Receive(abortHandler(NewReq("abort", u)))

(* ------------------------------------------------------- handler steps *)

Step(r) == req' = r

\* What interactionDetails returns: prompt.name, session, params.prompt.
Details(r, e) ==
    [r EXCEPT !.name = e.prompt, !.session = e.session, !.prompt = engine[r.uid]]

AtDetails(route) ==
    /\ req.pc = "details"
    /\ req.route = route

\* interactionDetails finds no interaction: SessionNotFound, on any route.
DetailsNotFound ==
    /\ req.pc = "details"
    /\ Step(routerCatch(req,
                SessionNotFoundErr("interaction session not found")))
    /\ UNCHANGED <<engine, jar, nreq, keys>>

\* Mutant of AssertEqual: the assertion is gone.
AssertEqual_NoCheck(r, expected, rest) == rest

\* assert.equal(name, expected), then the rest of the handler.
AssertEqual(r, expected, rest) ==
    IF r.name = expected THEN rest ELSE routerCatch(r, AssertionErr)

(* GET /interaction/:uid *)

InspectDetails ==
    /\ AtDetails("inspect")
    /\ \E e \in EngineAnswers :
        Step([Call(Details(req, e), "Client.find") EXCEPT !.pc = "client"])
    /\ UNCHANGED <<engine, jar, nreq, keys>>

\* Mutant of inspectSwitch: select_account renders without the session test.
inspectSwitch_NoSessionTest(r) ==
    CASE r.name = "select_account" -> [Call(r, "findAccount") EXCEPT !.pc = "account"]
      [] r.name = "login" -> Render(r, "login")
      [] r.name = "consent" -> Render(r, "interaction")
      [] OTHER -> [r EXCEPT !.pc = "responded", !.outcome = "next"]

\* Mutant of inspectSwitch: a prompt the switch does not know gets the login
\* view.
inspectSwitch_DefaultRendersLogin(r) ==
    CASE r.name = "select_account" ->
            IF ~r.session
            THEN interactionFinished(r, SelectAccountResult, FALSE)
            ELSE [Call(r, "findAccount") EXCEPT !.pc = "account"]
      [] r.name = "consent" -> Render(r, "interaction")
      [] OTHER -> Render(r, "login")

inspectSwitch(r) ==
    CASE r.name = "select_account" ->
            IF ~r.session
            THEN interactionFinished(r, SelectAccountResult, FALSE)
            ELSE [Call(r, "findAccount") EXCEPT !.pc = "account"]
      [] r.name = "login" -> Render(r, "login")
      [] r.name = "consent" -> Render(r, "interaction")
      [] OTHER -> [r EXCEPT !.pc = "responded", !.outcome = "next"]

InspectClient ==
    /\ req.pc = "client"
    /\ LET r == inspectSwitch(req) IN
        /\ Step(withDebug(r, keys))
        /\ keys' = IF r.outcome = "render" THEN keysAfterRender(r, keys) ELSE keys
    /\ UNCHANGED <<engine, jar, nreq>>

InspectAccount ==
    /\ req.pc = "account"
    /\ Step([Call(req, "claims") EXCEPT !.pc = "claims"])
    /\ UNCHANGED <<engine, jar, nreq, keys>>

InspectClaims ==
    /\ req.pc = "claims"
    /\ LET r == Render(req, "select_account") IN
        /\ Step(withDebug(r, keys))
        /\ keys' = keysAfterRender(r, keys)
    /\ UNCHANGED <<engine, jar, nreq>>

(* POST /interaction/:uid/login *)

loginAfterDetails(r) ==
    AssertEqual(r, "login", [Call(r, "findByLogin") EXCEPT !.pc = "lookup"])

LoginDetails ==
    /\ AtDetails("login")
    /\ \E e \in EngineAnswers : Step(loginAfterDetails(Details(req, e)))
    /\ UNCHANGED <<engine, jar, nreq, keys>>

\* Mutant of finishWithAccount: a failed lookup is raised as an error.
finishWithAccount_ThrowsOnNone(r, account) ==
    IF account = NoAccount
    THEN routerCatch(r, [kind |-> "LoginError", status |-> 0,
                         message |-> "invalid credentials", description |-> ""])
    ELSE interactionFinished([r EXCEPT !.account = account],
                             ResultOfLookup(account), FALSE)

\* The handler once the account lookup has returned `account`.
finishWithAccount(r, account) ==
    interactionFinished([r EXCEPT !.account = account],
                        ResultOfLookup(account), FALSE)

\* Account.findByLogin(body.login) returns an account or none.
LoginLookup ==
    /\ req.pc = "lookup"
    /\ \E account \in Accounts \cup {NoAccount} :
            Step(finishWithAccount(req, account))
    /\ UNCHANGED <<engine, jar, nreq, keys>>

(* POST /interaction/:uid/federated *)

\* Mutant of federatedCompletion: the expected state is taken from the
\* callback parameters instead of the cookie.
federatedCompletion_StateFromCallback(r) ==
    LET r1 == cookiesSet(r, "google.state", Empty, "")
        r2 == cookiesSet(r1, "google.nonce", Empty, "")
    IN [Call(r2, "callback") EXCEPT
            !.pc = "exchange",
            !.checks = [state |-> r.cb.state, nonce |-> r.ckNonce]]

\* The completion branch up to the await of ctx.google.callback: read and
\* clear google.state, read and clear google.nonce, hand both to the exchange.
federatedCompletion(r) ==
    LET state == r.ckState
        r1 == cookiesSet(r, "google.state", Empty, "")
        nonce == r.ckNonce
        r2 == cookiesSet(r1, "google.nonce", Empty, "")
    IN [Call(r2, "callback") EXCEPT
            !.pc = "exchange", !.checks = [state |-> state, nonce |-> nonce]]

\* Mutant of federatedInitiation: the authorization URL is built from a state
\* and a nonce of its own, not from the ones written to the cookies.
federatedInitiation_UrlOwnValues(r, x, y) ==
    LET state == stateOfDraw(r.uid, x)
        nonce == nonceOfDraw(y)
        r1 == cookiesSet(r, "google.state", state, "strict")
        r2 == cookiesSet(r1, "google.nonce", nonce, "strict")
    IN [Call(r2, "authorizationUrl") EXCEPT
            !.pc = "responded", !.outcome = "redirect", !.status = 302,
            !.body = "authorizationUrl", !.draws = <<x, y>>,
            !.bodyData = <<stateOfDraw(r.uid, y), nonceOfDraw(x),
                           "openid email profile">>]

\* Mutant of federatedInitiation: a state cookie the browser already holds is
\* used again.
federatedInitiation_ReusesState(r, x, y) ==
    LET state == IF r.ckState # Undefined THEN r.ckState ELSE stateOfDraw(r.uid, x)
        nonce == nonceOfDraw(y)
        r1 == cookiesSet(r, "google.state", state, "strict")
        r2 == cookiesSet(r1, "google.nonce", nonce, "strict")
    IN [Call(r2, "authorizationUrl") EXCEPT
            !.pc = "responded", !.outcome = "redirect", !.status = 302,
            !.body = "authorizationUrl", !.draws = <<x, y>>,
            !.bodyData = <<state, nonce, "openid email profile">>]

\* The initiation branch, x and y being what the two calls of randomBytes
\* return (kept in `draws`, history): the state `${uid}|${hex}` and the nonce,
\* both cookies, the redirect.
federatedInitiation(r, x, y) ==
    LET state == stateOfDraw(r.uid, x)
        nonce == nonceOfDraw(y)
        r1 == cookiesSet(r, "google.state", state, "strict")
        r2 == cookiesSet(r1, "google.nonce", nonce, "strict")
    IN [Call(r2, "authorizationUrl") EXCEPT
            !.pc = "responded", !.outcome = "redirect", !.status = 302,
            !.body = "authorizationUrl", !.draws = <<x, y>>,
            !.bodyData = <<state, nonce, "openid email profile">>]

federatedNoop(r) == [r EXCEPT !.pc = "responded", !.outcome = "noop"]

\* Mutant of federatedAfterDetails: every provider value is taken for google.
federatedAfterDetails_AnyProvider(r, x, y) ==
    AssertEqual(r, "login",
        IF r.cb.present
        THEN federatedCompletion(r)
        ELSE federatedInitiation(r, x, y))

\* The handler after interactionDetails: the assertion, then the switch on
\* body.provider and on the presence of callback parameters.
federatedAfterDetails(r, x, y) ==
    AssertEqual(r, "login",
        CASE r.provider = "google" ->
                IF r.cb.present
                THEN federatedCompletion(r)
                ELSE federatedInitiation(r, x, y)
          [] OTHER -> federatedNoop(r))

\* A completion marks the stored pair it read (history, read by no handler).
FederatedDetails ==
    /\ AtDetails("federated")
    /\ \E e \in EngineAnswers, x \in Rand, y \in Rand :
        LET r == federatedAfterDetails(Details(req, e), x, y)
            p == FederatedPath(r.uid)
        IN
        /\ Step(r)
        /\ jar' = IF r.pc = "exchange" /\ r.ckState # Undefined
                  THEN [jar EXCEPT ![p].read = TRUE]
                  ELSE jar
    /\ UNCHANGED <<engine, nreq, keys>>

\* ctx.google.callback(undefined, params, {state, nonce, response_type}) of
\* openid-client, as far as state and nonce go: a returned state without an
\* expected one, an expected state without a returned one, and two different
\* states are rejected; the id_token's nonce must be the expected nonce.
callbackChecks(params, checks) ==
    /\ ~(params.state # Undefined /\ checks.state = Undefined)
    /\ ~(params.state = Undefined /\ checks.state # Undefined)
    /\ checks.state = params.state
    /\ params.nonce = checks.nonce

\* The exchange returns a token set only when the checks pass, and may fail
\* for other reasons (signature, expiry, transport).
FederatedExchange ==
    /\ req.pc = "exchange"
    /\ \E valid \in BOOLEAN :
        Step(IF valid /\ callbackChecks(req.cb, req.checks)
                THEN [Call(req, "findByFederated") EXCEPT !.pc = "fedlookup"]
                ELSE routerCatch(req, RPErr))
    /\ UNCHANGED <<engine, jar, nreq, keys>>

\* Account.findByFederated("google", tokenset.claims()) returns an account or none.
FederatedLookup ==
    /\ req.pc = "fedlookup"
    /\ \E account \in Accounts \cup {NoAccount} :
            Step(finishWithAccount(req, account))
    /\ UNCHANGED <<engine, jar, nreq, keys>>

(* POST /interaction/:uid/continue *)

\* str.split(" ") and words.join(" ") on strings given as token sequences,
\* " " being the separator token.
RECURSIVE Split(_)
Split(str) ==
    IF str = <<>> THEN << <<>> >>
    ELSE IF Head(str) = " " THEN << <<>> >> \o Split(Tail(str))
    ELSE LET rest == Split(Tail(str))
         IN << <<Head(str)>> \o Head(rest) >> \o Tail(rest)

RECURSIVE Join(_)
Join(words) ==
    IF words = <<>> THEN <<>>
    ELSE IF Len(words) = 1 THEN Head(words)
    ELSE Head(words) \o <<" ">> \o Join(Tail(words))

\* Mutant of switchPrompt: the prompt is replaced, not extended.
switchPrompt_Replaces(prompt) ==
    IF prompt # Undefined THEN <<"login">> ELSE <<"logout">>

\* if (interaction.params.prompt) { [...split(" "), "login"].join(" ") } else "logout"
switchPrompt(prompt) ==
    IF prompt # Undefined
    THEN Join(Append(Split(prompt), <<"login">>))
    ELSE <<"logout">>

continueAfterDetails(r) ==
    AssertEqual(r, "select_account",
        IF r.switch
        THEN [Call([r EXCEPT !.prompt = switchPrompt(r.prompt)], "save")
                EXCEPT !.pc = "save"]
        ELSE interactionFinished(r, SelectAccountResult, FALSE))

ContinueDetails ==
    /\ AtDetails("continue")
    /\ \E e \in EngineAnswers : Step(continueAfterDetails(Details(req, e)))
    /\ UNCHANGED <<engine, jar, nreq, keys>>

\* await interaction.save() has written the interaction; then the resolve.
ContinueSave ==
    /\ req.pc = "save"
    /\ engine' = [engine EXCEPT ![req.uid] = req.prompt]
    /\ Step(interactionFinished([req EXCEPT !.saved = TRUE],
                                   SelectAccountResult, FALSE))
    /\ UNCHANGED <<jar, nreq, keys>>

(* POST /interaction/:uid/confirm *)

\* Mutant of confirmAfterDetails: the consent is not merged.
confirmAfterDetails_NoMerge(r) ==
    AssertEqual(r, "consent", interactionFinished(r, ConsentResult, FALSE))

confirmAfterDetails(r) ==
    AssertEqual(r, "consent", interactionFinished(r, ConsentResult, TRUE))

ConfirmDetails ==
    /\ AtDetails("confirm")
    /\ \E e \in EngineAnswers : Step(confirmAfterDetails(Details(req, e)))
    /\ UNCHANGED <<engine, jar, nreq, keys>>

(* ------------------------------------------------ engine, app and browser *)

\* The engine on interactionFinished: SessionNotFound when the interaction is
\* gone, else it takes the submission and answers with its own redirect.
Finish ==
    /\ req.pc = "finish"
    /\ LET r == req IN
       \E found \in BOOLEAN :
        Step(IF found
                THEN [r EXCEPT !.pc = "responded", !.outcome = "resolved",
                               !.status = 303, !.calls = Append(@, r.arg)]
                ELSE routerCatch(r,
                        SessionNotFoundErr("interaction session not found")))
    /\ UNCHANGED <<engine, jar, nreq, keys>>

\* The response reaches the browser, which stores its cookies; the slot is free.
Deliver ==
    /\ req.pc = "responded"
    /\ jar' = StoreCookies(jar, FinalResponse(req).setCookie)
    /\ Step(IdleReq)
    /\ UNCHANGED <<engine, nreq, keys>>

Next ==
        \/ GetInteraction
        \/ GetCallbackGoogle
        \/ PostLogin
        \/ PostFederated
        \/ PostContinue
        \/ PostConfirm
        \/ GetAbort
        \/ DetailsNotFound
        \/ InspectDetails
        \/ InspectClient
        \/ InspectAccount
        \/ InspectClaims
        \/ LoginDetails
        \/ LoginLookup
        \/ FederatedDetails
        \/ FederatedExchange
        \/ FederatedLookup
        \/ ContinueDetails
        \/ ContinueSave
        \/ ConfirmDetails
        \/ Finish
        \/ Deliver

Spec == Init /\ [][Next]_vars

(* ---------------------------------------------------------------- claims *)

Called(what) == \E i \in 1..Len(req.trace) : req.trace[i] = what

\* The request is a federated completion: the completion branch has run.
IsCompletion == req.route = "federated" /\ Called("callback")

\* The handler has ended and its response is about to be sent.
Responded == req.pc = "responded"

\* C1: after a federated completion, whether its exchange succeeded or raised,
\* the browser holds no google.state and no google.nonce cookie for the
\* interaction's path: the completion's response has cleared both.
C1_ClearedAfterCompletion ==
    [][(IsCompletion /\ Responded /\ req'.pc = "idle")
        => /\ jar'[FederatedPath(req.uid)].state = Undefined
           /\ jar'[FederatedPath(req.uid)].nonce = Undefined]_vars

\* C2: a federated completion hands a login to the engine only if the state of
\* the callback parameters is the google.state cookie the browser stored for
\* this interaction's path, a value written by an initiation for this uid.
HasLogin(call) == \E acc \in Accounts : <<"login.account", acc>> \in call.result

C3_PairReadOnce ==
    IsCompletion => ~(req.ckState # Undefined /\ req.ckRead)

\* The account lookup of a login submit or of a federated completion has
\* returned.
LookupReturned ==
    /\ req.pc \in {"finish", "responded"}
    /\ \/ req.route = "login" /\ Called("findByLogin")
       \/ req.route = "federated" /\ Called("findByFederated")

\* The calls of interactionFinished the request has made and the engine has taken
\* are exactly `call`, or the call is made and the engine has yet to act on it.
CalledExactly(call) ==
    /\ Called("interactionFinished")
    /\ req.arg = call
    /\ req.pc = "finish" => req.calls = <<>>
    /\ req.pc = "responded" =>
        \/ req.outcome = "resolved" /\ req.calls = <<call>>
        \/ req.outcome = "errorpage" /\ req.err = "SessionNotFound" /\ req.calls = <<>>

\* C4: when the account lookup of a login submit or a federated completion
\* returns an account, interactionFinished is called with exactly
\* {select_account: {}, login: {account: accountId}} and merge false.
C4_LoginResultOnAccount ==
    (LookupReturned /\ req.account # NoAccount)
    => CalledExactly([result |-> {<<"select_account", "{}">>,
                                  <<"login.account", req.account>>},
                      merge |-> FALSE])

C4_Witness ==
    /\ req.route = "login"
    /\ req.login = "alice"
    /\ req.account = "u1"
    /\ req.outcome = "resolved"
    /\ req.calls = <<[result |-> {<<"select_account", "{}">>, <<"login.account", "u1">>},
                     merge |-> FALSE]>>

\* C5: when the account lookup returns no account, the handler raises nothing
\* and renders no error page for it: it calls interactionFinished with {} and
\* merge false.
C5_EmptyResultOnNoAccount ==
    (LookupReturned /\ req.account = NoAccount)
    => /\ CalledExactly([result |-> {}, merge |-> FALSE])
       /\ req.err \in {"", "SessionNotFound"}
       /\ req.pc = "finish" => req.err = "" /\ req.body = "" /\ req.outcome = ""

C5_Witness ==
    /\ req.route = "federated"
    /\ Called("findByFederated")
    /\ req.account = NoAccount
    /\ req.outcome = "resolved"
    /\ req.calls = <<[result |-> {}, merge |-> FALSE]>>

\* C6: on GET /interaction/:uid with prompt select_account and no session the
\* handler goes straight to interactionFinished({select_account: {}}, merge
\* false): no account or claims lookup, no view.
C6_SelectAccountWithoutSession ==
    (req.route = "inspect" /\ req.name = "select_account" /\ ~req.session
        /\ req.pc \notin {"details", "client"})
    => /\ CalledExactly([result |-> {<<"select_account", "{}">>}, merge |-> FALSE])
       /\ req.trace = <<"interactionDetails", "Client.find", "interactionFinished">>
       /\ req.outcome # "render"
       /\ req.body \notin {"select_account", "login", "interaction"}

C6_Witness ==
    /\ req.route = "inspect"
    /\ req.name = "select_account"
    /\ ~req.session
    /\ req.outcome = "resolved"

\* C7: the confirm route calls interactionFinished with consent
\* {rejectedScopes: [], rejectedClaims: [], replace: false} and merge true;
\* every other call of interactionFinished has merge false.
C7_OnlyConfirmMerges ==
    Called("interactionFinished")
    => IF req.route = "confirm"
       THEN CalledExactly([result |-> {<<"consent.rejectedScopes", "[]">>,
                                       <<"consent.rejectedClaims", "[]">>,
                                       <<"consent.replace", "false">>},
                           merge |-> TRUE])
       ELSE /\ ~req.arg.merge
            /\ \A i \in 1..Len(req.calls) : ~req.calls[i].merge

C7_Witness ==
    /\ req.route = "confirm"
    /\ req.outcome = "resolved"
    /\ Len(req.calls) = 1
    /\ req.calls[1].merge

\* C8: on continue with switch, params.prompt is the previous prompt with
\* " login" appended, or "logout" when there was none; it is saved before
\* interactionFinished is called; the route resolves with {select_account: {}}.
PromptAfterSwitch(previous) ==
    IF previous = Undefined THEN <<"logout">> ELSE previous \o <<" ", "login">>

C8_SwitchSavedBeforeResolve ==
    (req.route = "continue" /\ req.name = "select_account" /\ req.pc # "details")
    => /\ (req.switch /\ req.pc = "save") =>
            /\ req.prompt = PromptAfterSwitch(engine[req.uid])
            /\ ~Called("interactionFinished")
       /\ (req.switch /\ req.pc # "save") =>
            /\ req.saved
            /\ engine[req.uid] = req.prompt
            /\ req.trace = <<"interactionDetails", "save", "interactionFinished">>
       /\ req.pc # "save" =>
            CalledExactly([result |-> {<<"select_account", "{}">>}, merge |-> FALSE])
       /\ ~req.switch => ~req.saved /\ req.prompt = engine[req.uid]

C8_Witness ==
    /\ req.route = "continue"
    /\ req.switch
    /\ req.outcome = "resolved"
    /\ engine[req.uid] = <<"consent", " ", "login", " ", "login">>

\* C9: a login, federated, continue or confirm submit whose pending prompt is
\* not the one the route requires ends in an assertion error that leaves the
\* router (no error page); nothing was resolved, changed, saved, or written
\* to a cookie.
RequiredPrompt(route) ==
    CASE route = "login" -> "login"
      [] route = "federated" -> "login"
      [] route = "continue" -> "select_account"
      [] route = "confirm" -> "consent"
      [] OTHER -> ""

C9_AssertionLeavesNoEffect ==
    (req.route \in {"login", "federated", "continue", "confirm"}
        /\ req.pc # "details" /\ req.name # "" /\ req.name # RequiredPrompt(req.route))
    => /\ req.pc = "responded"
       /\ req.err = "AssertionError"
       /\ req.outcome = "thrown"
       /\ req.body # "errorpage"
       /\ req.calls = <<>>
       /\ ~Called("interactionFinished")
       /\ ~req.saved
       /\ req.prompt = engine[req.uid]
       /\ req.cookieSets = <<>>
       /\ req.trace = <<"interactionDetails">>

C9_Witness ==
    /\ req.route = "federated"
    /\ req.provider = "google"
    /\ req.cb.present
    /\ req.ckState # Undefined
    /\ req.name = "consent"
    /\ req.err = "AssertionError"

\* C10: a SessionNotFound raised in a handler becomes a response with the
\* error's status and the error page of its message and description, the
\* interaction unresolved; any other error leaves the router as it is and no
\* error page is rendered.
C10_OnlySessionNotFoundRendered ==
    /\ req.err = "SessionNotFound" =>
        /\ req.outcome = "errorpage"
        /\ req.status = SessionNotFoundErr("").status
        /\ req.body = "errorpage"
        /\ req.bodyData = <<"invalid_request", "interaction session not found">>
        /\ req.calls = <<>>
        /\ FinalResponse(req).status = 400
        /\ FinalResponse(req).body = "errorpage"
    /\ req.err \notin {"", "SessionNotFound"} =>
        /\ req.outcome = "thrown"
        /\ req.body # "errorpage"
        /\ req.bodyData = <<>>
        /\ req.status = 0
    /\ req.outcome = "thrown" => req.err \in {"AssertionError", "RPError"}
    /\ req.outcome = "errorpage" => req.err = "SessionNotFound"

C10_Witness ==
    /\ req.route = "abort"
    /\ req.err = "SessionNotFound"
    /\ req.outcome = "errorpage"

\* The request is a federated initiation: the initiation branch has run.
IsInitiation == req.route = "federated" /\ Called("authorizationUrl")

SetCookie(name, value, uid, sameSite) ==
    [name |-> name, value |-> value,
     path |-> <<"interaction", uid, "federated">>, sameSite |-> sameSite]

\* C11: a federated submit with provider google, no callback parameters and
\* prompt login sets google.state and google.nonce on the path
\* /interaction/<uid>/federated with sameSite strict, redirects to the
\* authorization URL built from those two values and the scope
\* "openid email profile", and does not call interactionFinished; a
\* completion clears the two cookies on that same path.
C11_InitiationCookiesAndRedirect ==
    /\ (req.route = "federated" /\ req.provider = "google" /\ ~req.cb.present
            /\ req.name = "login")
        => /\ Responded
           /\ req.outcome = "redirect"
           /\ req.status = 302
           /\ \E st \in States, n \in Nonces :
                /\ req.cookieSets = <<SetCookie("google.state", st, req.uid, "strict"),
                                      SetCookie("google.nonce", n, req.uid, "strict")>>
                /\ req.bodyData = <<st, n, "openid email profile">>
           /\ FinalResponse(req).setCookie = req.cookieSets
           /\ req.trace = <<"interactionDetails", "authorizationUrl">>
           /\ ~Called("interactionFinished")
           /\ req.calls = <<>>
    /\ IsCompletion
        => req.cookieSets = <<SetCookie("google.state", <<>>, req.uid, ""),
                              SetCookie("google.nonce", <<>>, req.uid, "")>>

C11_Witness ==
    /\ IsInitiation
    /\ req.uid = "a"
    /\ req.outcome = "redirect"
    /\ Len(req.cookieSets) = 2
    /\ req.cookieSets[1].value # <<>>
    /\ req.bodyData[1] = req.cookieSets[1].value

\* C12 as stated: the state written by an initiation is the uid, "|" and 64
\* hexadecimal characters, and an initiation never writes the state value
\* that the preceding initiation for the same uid wrote (the one the browser
\* still holds).
HexChars == {HexDigits[i] : i \in 1..Len(HexDigits)}

IsStateFormat(st, uid) ==
    /\ Len(st) = 66
    /\ st[1] = uid
    /\ st[2] = "|"
    /\ \A i \in 3..Len(st) : st[i] \in HexChars

C12_SuccessiveStatesDiffer ==
    [][(IsInitiation /\ Responded /\ req'.pc = "idle")
        => /\ IsStateFormat(jar'[FederatedPath(req.uid)].state, req.uid)
           /\ jar[FederatedPath(req.uid)].state # Undefined
                => jar'[FederatedPath(req.uid)].state
                        # jar[FederatedPath(req.uid)].state]_vars

\* C12 as amended: the state written by an initiation is the uid, "|" and the
\* 64 hexadecimal characters of the 32 bytes that this initiation's own call
\* of randomBytes returned; two initiations write the same state only when
\* the random source returns the same bytes to both.
C12_StateOfOwnDraw ==
    IsInitiation
    => /\ IsStateFormat(req.cookieSets[1].value, req.uid)
       /\ Len(req.draws) = 2
       /\ SubSeq(req.cookieSets[1].value, 3, 66)
            = toHex(randomBytes(32, req.draws[1]))
       /\ Len(randomBytes(32, req.draws[1])) = 32

C12_Witness ==
    /\ IsInitiation
    /\ Responded
    /\ req.ckState # Undefined
    /\ req.ckState[1] = req.uid
    /\ req.cookieSets[1].value # req.ckState

\* C13: an abort request calls interactionFinished with {error:
\* "access_denied", error_description: "End-User aborted interaction"} and
\* merge false, as its first and only call: the interaction is neither read
\* (so whatever its prompt is) nor changed beforehand.
C13_AbortResolvesAccessDenied ==
    req.route = "abort"
    => /\ CalledExactly([result |-> {<<"error", "access_denied">>,
                                     <<"error_description",
                                       "End-User aborted interaction">>},
                         merge |-> FALSE])
       /\ req.trace = <<"interactionFinished">>
       /\ req.name = ""
       /\ req.prompt = Undefined
       /\ ~req.saved
       /\ req.cookieSets = <<>>

C13_Witness ==
    /\ req.route = "abort"
    /\ req.outcome = "resolved"
    /\ Len(req.calls) = 1
    /\ <<"error", "access_denied">> \in req.calls[1].result

\* What "no-op" says of a request whose handler has ended: no cookie set or
\* cleared, no redirect, no exchange or account lookup, no resolve, no error.
IsNoop ==
    /\ req.cookieSets = <<>>
    /\ FinalResponse(req).setCookie = <<>>
    /\ req.outcome \notin {"redirect", "resolved", "thrown", "errorpage", "render"}
    /\ req.status # 302
    /\ req.trace = <<"interactionDetails">>
    /\ req.calls = <<>>
    /\ ~req.saved
    /\ req.err = ""

\* C14 as stated: a federated submit whose provider is not google ends as a
\* no-op.
C14_OtherProviderIsNoop ==
    (req.route = "federated" /\ req.provider # "google" /\ Responded)
    => IsNoop

\* C14 as amended: a federated submit whose provider is not google, for an
\* interaction that is found and whose pending prompt is login, ends as a
\* no-op, callback parameters or not.
C14_OtherProviderIsNoopAtLogin ==
    (req.route = "federated" /\ req.provider # "google" /\ req.name = "login")
    => /\ Responded
       /\ IsNoop

C14_Witness ==
    /\ req.route = "federated"
    /\ req.provider = "other"
    /\ req.cb.present
    /\ req.ckState # Undefined
    /\ req.name = "login"
    /\ req.outcome = "noop"

\* A view with debug panels has been rendered.
RenderedPanels == req.route = "inspect" /\ req.outcome = "render"

\* The panels of a render are what a serializer starting from an empty set
\* writes: no emphasis comes from an earlier request.
PanelsAsFresh == RenderedPanels => req.dbg = debugPanels(req, {})

\* C15: requests share no mutable state inside the component: whenever a view
\* is rendered, the set of names that the debug serializer emphasises holds
\* keys of that same render only, nothing recorded by an earlier request, and
\* the panels are those the request would get after any other sequence of
\* earlier requests.
C15_NoSharedMutableState ==
    RenderedPanels
    => /\ keys \subseteq keysAfterRender(req, {})
       /\ req.dbg = debugPanels(req, {})

\* C16: every response, on every route and outcome (render, redirect, resolve,
\* SessionNotFound error page, propagated error), carries Pragma: no-cache
\* and Cache-Control: no-cache, no-store.
C16_NoCacheOnEveryResponse ==
    Responded => FinalResponse(req).nocache

\* The account lookups and token exchanges a handler has made (the claims
\* of an account counted with the lookup of that account).
LookupsAndExchanges ==
    {i \in 1..Len(req.trace) :
        req.trace[i] \in {"findByLogin", "findByFederated", "findAccount",
                          "callback"}}

IndexOf(what) == CHOOSE i \in 1..Len(req.trace) : req.trace[i] = what

\* Each call is made at most once, the interaction lookup, where a handler has
\* one, is its first call, at most one resolve is taken by the engine, nothing
\* follows the call of interactionFinished, and a request that calls it
\* neither renders nor redirects.
OneChain ==
    /\ \A i, j \in 1..Len(req.trace) : req.trace[i] = req.trace[j] => i = j
    /\ Called("interactionDetails") => req.trace[1] = "interactionDetails"
    /\ Len(req.calls) <= 1
    /\ Called("interactionFinished") =>
        /\ IndexOf("interactionFinished") = Len(req.trace)
        /\ req.outcome \notin {"render", "redirect"}
        /\ req.status # 302
        /\ req.body \notin {"login", "interaction", "select_account", "repost",
                            "authorizationUrl"}

\* C17 as stated: one sequential chain per request, with at most one account
\* or claims lookup or token exchange between the interaction lookup and the
\* resolve.
C17_AtMostOneLookupOrExchange ==
    /\ OneChain
    /\ Cardinality(LookupsAndExchanges) <= 1

\* The chains of external calls of each route, in the order of the handler.
Chains(route) ==
    CASE route = "inspect" ->
            {<<"interactionDetails", "Client.find", "interactionFinished">>,
             <<"interactionDetails", "Client.find", "findAccount", "claims", "render">>,
             <<"interactionDetails", "Client.find", "render">>}
      [] route = "callback" -> {<<"render">>}
      [] route = "login" ->
            {<<"interactionDetails", "findByLogin", "interactionFinished">>}
      [] route = "federated" ->
            {<<"interactionDetails", "callback", "findByFederated",
               "interactionFinished">>,
             <<"interactionDetails", "authorizationUrl">>}
      [] route = "continue" ->
            {<<"interactionDetails", "save", "interactionFinished">>,
             <<"interactionDetails", "interactionFinished">>}
      [] route = "confirm" -> {<<"interactionDetails", "interactionFinished">>}
      [] route = "abort" -> {<<"interactionFinished">>}
      [] OTHER -> {<<>>}

IsPrefix(s, t) == Len(s) <= Len(t) /\ s = SubSeq(t, 1, Len(s))

\* C17 as amended: one sequential chain per request, the calls made so far
\* being the beginning of one of the route's chains: the interaction lookup,
\* then the route's lookups in their fixed order (client, account, claims on
\* inspect; the account on login; the token exchange and then the account on
\* a federated completion; the save on a continue with switch), then the
\* resolve.
C17_SequentialChain ==
    /\ OneChain
    /\ \E chain \in Chains(req.route) : IsPrefix(req.trace, chain)

C17_Witness ==
    /\ req.trace = <<"interactionDetails", "callback", "findByFederated",
                     "interactionFinished">>
    /\ req.outcome = "resolved"
    /\ Len(req.calls) = 1

\* C18: on GET /interaction/:uid, unless the prompt is select_account without
\* a session, the handler never calls interactionFinished, never saves the
\* interaction and never sets a cookie; for a prompt name other than login,
\* consent and select_account it renders nothing and calls next().
C18_InspectReadOnly ==
    (req.route = "inspect" /\ req.name # ""
        /\ ~(req.name = "select_account" /\ ~req.session))
    => /\ ~Called("interactionFinished")
       /\ ~Called("save")
       /\ req.calls = <<>>
       /\ ~req.saved
       /\ req.prompt = engine[req.uid]
       /\ req.cookieSets = <<>>
       /\ FinalResponse(req).setCookie = <<>>
       /\ (req.name \notin {"login", "consent", "select_account"}
                /\ req.pc # "client")
            => /\ Responded
               /\ req.outcome = "next"
               /\ ~Called("render")
               /\ req.body = ""
               /\ req.trace = <<"interactionDetails", "Client.find">>

C18_Witness ==
    /\ req.route = "inspect"
    /\ req.name = "other"
    /\ req.outcome = "next"

====
